---- MODULE Spec2Model ----
(***************************************************************************)
(* A model of the serienmacher object-graph codec: serialize / deserialize *)
(* with the registry of native objects, the worklist encoder               *)
(* (serializeComplex) and the two-pass decoder (parseComplex).             *)
(*                                                                         *)
(* JavaScript values are tagged records.  Objects live in a heap (a        *)
(* sequence of object records, an object's identity is its index), so that *)
(* reference equality (===) is equality of heap indices.  The decoder      *)
(* allocates its shells at the end of the same heap.                       *)
(***************************************************************************)
EXTENDS Integers, Sequences, FiniteSets, TLC

(***************************************************************************)
(* Bounds of the model.                                                    *)
(***************************************************************************)
MaxRing == 3        \* longest ring of objects a.a -> b.a -> ... -> a
MaxLen == 2         \* largest array length
MaxPath == 4        \* longest property path followed from a root
MaxNum == 2         \* largest number among the primitive roots
MaxCalls == 3       \* most calls of serialize in one run

(***************************************************************************)
(* enum valueType, enum objectType, enum keyType                           *)
(***************************************************************************)
JSONREADY == 0
COMPLEX == 1
BIGINT == 2
SYMBOL == 3
UNDEFINED == 4
NATIVE == 5

NORMAL == 0
FUNCTION == 1
ARRAY == 2

STRING_KEY == 0     \* keyType.STRING
NATIVE_SYMBOL == 1
CUSTOM_SYMBOL == 2

\* the smallest tag that is a member of none of the enums
UnknownTag == NATIVE + 1

(***************************************************************************)
(* JavaScript values.                                                      *)
(***************************************************************************)
Null == [t |-> "null"]
Undef == [t |-> "undefined"]
Bool(b) == [t |-> "boolean", b |-> b]
Num(n) == [t |-> "number", n |-> n]
NonFinite(w) == [t |-> "number", w |-> w]      \* NaN, Infinity, -Infinity
Str(s) == [t |-> "string", s |-> s]
Big(n) == [t |-> "bigint", g |-> n]
Sym(y) == [t |-> "symbol", y |-> y]
Ref(o) == [t |-> "object", o |-> o]

\* symbols: registered (Symbol.for(key)) or unique (Symbol(desc))
RegSym(k) == [key |-> k]
UniqSym(n, d) == [id |-> n, desc |-> d]

IsRef(v) == v.t = "object"
IsFinite(v) == v.t = "number" /\ "n" \in DOMAIN v

\* Symbol.for(key): the one registered symbol of that key
SymbolFor(k) == Sym(RegSym(k))

\* Symbol.keyFor(sym): the key of a registered symbol, undefined otherwise
SymbolKeyFor(v) == IF "key" \in DOMAIN v.y THEN Str(v.y.key) ELSE Undef

\* sym.description ?? null
Description(y) == IF "key" \in DOMAIN y THEN Str(y.key)
                  ELSE IF y.desc = Undef THEN Null ELSE y.desc

\* String(v) for the primitives that reach Symbol.for / property keys
JSString(v) ==
    CASE v.t = "string" -> v.s
      [] v.t = "null" -> "null"
      [] v.t = "undefined" -> "undefined"
      [] OTHER -> "other"

(***************************************************************************)
(* Texts.  JSON.stringify of a primitive gives a JSON text, bigint's       *)
(* toString and Number's toString give a numeral.  A text is modelled by   *)
(* its parse tree, a string value by Str.                                  *)
(***************************************************************************)
Quoted(s) == [q |-> "quoted", s |-> s]         \* "\"abc\""
Numeral(n) == [q |-> "numeral", n |-> n]       \* "5"
Literal(l) == [q |-> "literal", l |-> l]       \* "null", "true", "false"
Empty == [q |-> "empty"]                       \* ""
NoText == [q |-> "absent"]                     \* undefined where a text is expected
NullText == [q |-> "jsonnull"]                 \* null where a text is expected

\* JSON.stringify(basic) for a JSON-ready primitive
JSONstringify(v) ==
    CASE v.t = "null" -> Literal("null")
      [] v.t = "boolean" -> Literal(IF v.b THEN "true" ELSE "false")
      [] v.t = "string" -> Quoted(v.s)
      [] v.t = "number" -> IF IsFinite(v) THEN Numeral(v.n) ELSE Literal("null")

\* JSON.parse(text); Threw for a text that is no JSON
Threw(e) == [t |-> "threw", e |-> e]
IsThrow(v) == v.t = "threw"

JSONparse(x) ==
    CASE x.q = "quoted" -> Str(x.s)
      [] x.q = "numeral" -> Num(x.n)
      [] x.q = "literal" -> (CASE x.l = "null" -> Null
                               [] x.l = "true" -> Bool(TRUE)
                               [] x.l = "false" -> Bool(FALSE))
      [] x.q = "jsonnull" -> Null              \* JSON.parse(null) parses "null"
      [] OTHER -> Threw("SyntaxError")

(***************************************************************************)
(* Objects and property descriptors.                                       *)
(*   kind  : "normal", "array" or "function" (Array.isArray / typeof)      *)
(*   proto : Ref(parent) or Null                                           *)
(*   props : own properties in Reflect.ownKeys order                       *)
(*   src   : source text of a function (sequence of tokens), <<>> else     *)
(* A data property has acc = FALSE and get = set = Undef; an accessor      *)
(* property has acc = TRUE, no value and no writable flag.                 *)
(***************************************************************************)
DataProp(k, v, c, e, w) ==
    [key |-> k, configurable |-> c, enumerable |-> e, writable |-> w,
     acc |-> FALSE, value |-> v, get |-> Undef, set |-> Undef]
AccProp(k, g, s, c, e) ==
    [key |-> k, configurable |-> c, enumerable |-> e, writable |-> FALSE,
     acc |-> TRUE, value |-> Undef, get |-> g, set |-> s]
Plain(name, v) == DataProp(Str(name), v, TRUE, TRUE, TRUE)      \* o.name = v
Hidden(name, v) == DataProp(Str(name), v, TRUE, FALSE, TRUE)    \* method-like
Fixed(name, v) == DataProp(Str(name), v, TRUE, FALSE, FALSE)    \* fn.length, fn.name

Obj(kind, proto, props, src) ==
    [kind |-> kind, proto |-> proto, props |-> props, src |-> src]

\* names of the array indices 0, 1, 2, ...
IndexNames == <<"0", "1", "2", "3", "4", "5">>
IsIndex(k) == k.t = "string" /\ \E i \in 1..Len(IndexNames) : IndexNames[i] = k.s
IndexOf(k) == (CHOOSE i \in 1..Len(IndexNames) : IndexNames[i] = k.s) - 1

\* position of key k in a property list, 0 when absent
PropPos(props, k) ==
    IF \E i \in 1..Len(props) : props[i].key = k
    THEN CHOOSE i \in 1..Len(props) : props[i].key = k
    ELSE 0

\* Object.getOwnPropertyDescriptor(o, k) !== undefined
HasOwn(o, k) == PropPos(o.props, k) # 0
OwnProp(o, k) == o.props[PropPos(o.props, k)]

\* rank of a key in Reflect.ownKeys order: indices, then strings, then symbols
KeyClass(k) == IF IsIndex(k) THEN 0 ELSE IF k.t = "string" THEN 1 ELSE 2
Before(k1, k2) ==
    \/ KeyClass(k1) < KeyClass(k2)
    \/ KeyClass(k1) = 0 /\ KeyClass(k2) = 0 /\ IndexOf(k1) < IndexOf(k2)

\* insert a new property at its place in own-key order
InsertProp(props, p) ==
    LET n == Cardinality({i \in 1..Len(props) : ~Before(p.key, props[i].key)})
    IN  SubSeq(props, 1, n) \o <<p>> \o SubSeq(props, n + 1, Len(props))

(***************************************************************************)
(* Source texts of functions, as sequences of tokens.  A token stands for  *)
(* one character of the text, except the keywords and the brace-free body  *)
(* fragments, which stand for the run of characters they spell.            *)
(***************************************************************************)
SrcClass == <<"class", " ", "a", " ", "{", "constructor", "(", ")", " ", "{",
              "this.b = 5", "}", "}">>
SrcGetter == <<"get", " ", "x", "(", ")", " ", "{", "return 5", "}">>
SrcSetter == <<"set", " ", "x", "(", "v", ")", " ", "{", "this.y = v", "}">>
SrcFunction == <<"function", " ", "F", "(", "n", ",", " ", "m", ")", " ", "{",
                 "return n+m", "}">>
SrcExprArrow == <<"(", ")", " ", "=>", " ", "5">>
SrcNative == <<"function", " ", "Object", "(", ")", " ", "{", "[native code]", "}">>
SrcArrow == <<"(", "n", ",", " ", "m", ")", " ", "=>", " ", "{", "return n+m", "}">>
\* one parameter, whose name nm is two characters long
SrcLongParam == <<"(", "n", "m", ")", " ", "=>", " ", "{", "return nm", "}">>
SrcBareArrow == <<"n", " ", "=>", " ", "{", "return n", "}">>

(***************************************************************************)
(* The objects the environment provides (globalThis and what it reaches).  *)
(***************************************************************************)
GLOBAL == 1
OBJECT == GLOBAL + 1
ARRAYCTOR == OBJECT + 1
OBJPROTO == ARRAYCTOR + 1
FUNPROTO == OBJPROTO + 1
ARRPROTO == FUNPROTO + 1
PUSH == ARRPROTO + 1

EnvHeap == <<
    Obj("normal", Ref(OBJPROTO),
        <<Hidden("Object", Ref(OBJECT)), Hidden("Array", Ref(ARRAYCTOR))>>, <<>>),
    Obj("function", Ref(FUNPROTO),
        <<Fixed("length", Num(1)), Fixed("name", Str("Object")),
          DataProp(Str("prototype"), Ref(OBJPROTO), FALSE, FALSE, FALSE)>>, SrcNative),
    Obj("function", Ref(FUNPROTO),
        <<Fixed("length", Num(1)), Fixed("name", Str("Array")),
          DataProp(Str("prototype"), Ref(ARRPROTO), FALSE, FALSE, FALSE)>>, SrcNative),
    Obj("normal", Null, <<Hidden("constructor", Ref(OBJECT))>>, <<>>),
    Obj("function", Ref(OBJPROTO),
        <<Fixed("length", Num(0)), Fixed("name", Str(""))>>, SrcNative),
    Obj("array", Ref(OBJPROTO),
        <<DataProp(Str("length"), Num(0), FALSE, FALSE, TRUE),
          Hidden("constructor", Ref(ARRAYCTOR)), Hidden("push", Ref(PUSH))>>, <<>>),
    Obj("function", Ref(FUNPROTO),
        <<Fixed("length", Num(1)), Fixed("name", Str("push"))>>, SrcNative)
>>

(***************************************************************************)
(* The objects of the program under test.                                  *)
(***************************************************************************)
INST == PUSH + 1          \* b = new a()
CPROTO == INST + 1        \* a.prototype
CLS == CPROTO + 1           \* class a { constructor() { this.b = 5 } }
GOBJ == CLS + 1         \* { get x() { return 5 } }
GETTER == GOBJ + 1
FUN == GETTER + 1          \* function F(n, m) { return n+m }; F.extra = 5; F.prototype.self = F
FUNPROTOTYPE == FUN + 1
SHARED == FUNPROTOTYPE + 1       \* { p: leaf, q: leaf }
LEAF == SHARED + 1
NULLP == LEAF + 1        \* n = Object.create(null); n.a = n
SYMOBJ == NULLP + 1       \* { [sym]: { [sym]: 5 } }
SYMINNER == SYMOBJ + 1
MIXED == SYMINNER + 1        \* one property of every primitive kind
ARROWGET == MIXED + 1     \* Object.defineProperty({}, "x", { get: () => 5 })
EXPRARROW == ARROWGET + 1
NATGET == EXPRARROW + 1       \* Object.defineProperty({}, "x", { get: Object })
GSOBJ == NATGET + 1        \* { get x() {...}, set x(v) {...} }
SETTER == GSOBJ + 1
PAIR == SETTER + 1         \* { f: F, q: F.prototype }
INSTINF == PAIR + 1        \* c = new a(); c.max = Infinity
ARROW == INSTINF + 1       \* (n, m) => { return n+m }
LONGPARAM == ARROW + 1     \* (nm) => { return nm }
BAREARROW == LONGPARAM + 1 \* n => { return n }
SYMTWO == BAREARROW + 1    \* { [sym]: { [sym]: 5 }, [tag]: 7 }

Sym1 == UniqSym(1, Undef)          \* Symbol()
Sym2 == UniqSym(2, Str("tag"))     \* Symbol("tag")

UserHeap == <<
    Obj("normal", Ref(CPROTO), <<Plain("b", Num(5))>>, <<>>),
    Obj("normal", Ref(OBJPROTO), <<Hidden("constructor", Ref(CLS))>>, <<>>),
    Obj("function", Ref(FUNPROTO),
        <<Fixed("length", Num(0)), Fixed("name", Str("a")),
          DataProp(Str("prototype"), Ref(CPROTO), FALSE, FALSE, FALSE)>>, SrcClass),
    Obj("normal", Ref(OBJPROTO),
        <<AccProp(Str("x"), Ref(GETTER), Undef, TRUE, TRUE)>>, <<>>),
    Obj("function", Ref(FUNPROTO),
        <<Fixed("length", Num(0)), Fixed("name", Str("get x"))>>, SrcGetter),
    Obj("function", Ref(FUNPROTO),
        <<Fixed("length", Num(2)), Fixed("name", Str("F")),
          DataProp(Str("prototype"), Ref(FUNPROTOTYPE), FALSE, FALSE, TRUE),
          Plain("extra", Num(5))>>, SrcFunction),
    Obj("normal", Ref(OBJPROTO),
        <<Hidden("constructor", Ref(FUN)), Plain("self", Ref(FUN))>>, <<>>),
    Obj("normal", Ref(OBJPROTO), <<Plain("p", Ref(LEAF)), Plain("q", Ref(LEAF))>>, <<>>),
    Obj("normal", Ref(OBJPROTO), <<Plain("v", Num(5))>>, <<>>),
    Obj("normal", Null, <<Plain("a", Ref(NULLP))>>, <<>>),
    Obj("normal", Ref(OBJPROTO),
        <<DataProp(Sym(Sym1), Ref(SYMINNER), TRUE, TRUE, TRUE)>>, <<>>),
    Obj("normal", Ref(OBJPROTO),
        <<DataProp(Sym(Sym1), Num(5), TRUE, TRUE, TRUE)>>, <<>>),
    Obj("normal", Ref(OBJPROTO),
        <<Plain("s", Str("b")), Plain("z", Null), Plain("t", Bool(TRUE)),
          Plain("inf", NonFinite("Infinity")), Plain("big", Big(7)),
          Plain("und", Undef), Plain("nat", Ref(OBJECT)),
          Plain("rs", SymbolFor("k")), Plain("us", Sym(Sym2)),
          DataProp(SymbolFor("k"), Num(1), TRUE, TRUE, TRUE)>>, <<>>),
    Obj("normal", Ref(OBJPROTO),
        <<AccProp(Str("x"), Ref(EXPRARROW), Undef, TRUE, TRUE)>>, <<>>),
    Obj("function", Ref(FUNPROTO),
        <<Fixed("length", Num(0)), Fixed("name", Str("get"))>>, SrcExprArrow),
    Obj("normal", Ref(OBJPROTO),
        <<AccProp(Str("x"), Ref(OBJECT), Undef, TRUE, TRUE), Plain("y", Num(1))>>, <<>>),
    Obj("normal", Ref(OBJPROTO),
        <<AccProp(Str("x"), Ref(GETTER), Ref(SETTER), TRUE, TRUE)>>, <<>>),
    Obj("function", Ref(FUNPROTO),
        <<Fixed("length", Num(1)), Fixed("name", Str("set x"))>>, SrcSetter),
    Obj("normal", Ref(OBJPROTO),
        <<Plain("f", Ref(FUN)), Plain("q", Ref(FUNPROTOTYPE))>>, <<>>),
    Obj("normal", Ref(CPROTO),
        <<Plain("b", Num(5)), Plain("max", NonFinite("Infinity"))>>, <<>>),
    Obj("function", Ref(FUNPROTO),
        <<Fixed("length", Num(2)), Fixed("name", Str("a"))>>, SrcArrow),
    Obj("function", Ref(FUNPROTO),
        <<Fixed("length", Num(1)), Fixed("name", Str("a"))>>, SrcLongParam),
    Obj("function", Ref(FUNPROTO),
        <<Fixed("length", Num(1)), Fixed("name", Str("a"))>>, SrcBareArrow),
    Obj("normal", Ref(OBJPROTO),
        <<DataProp(Sym(Sym1), Ref(SYMINNER), TRUE, TRUE, TRUE),
          DataProp(Sym(Sym2), Num(7), TRUE, TRUE, TRUE)>>, <<>>)
>>

FixedHeap == EnvHeap \o UserHeap

(***************************************************************************)
(* The registry of native objects: addNatives and its helpers.  The Set    *)
(* nativeSet is a duplicate-free sequence in insertion order.              *)
(***************************************************************************)
SetAdd(set, o) == IF \E i \in 1..Len(set) : set[i] = o THEN set ELSE Append(set, o)

RECURSIVE SetAddAll(_, _)
SetAddAll(set, os) ==
    IF os = <<>> THEN set ELSE SetAddAll(SetAdd(set, Head(os)), Tail(os))

\* ["object", "function"].includes(typeof v) && v !== null
IsObjectOrFunction(v) == IsRef(v)

\* addValues(native): the values of its own data properties, in key order
RECURSIVE addValues(_, _)
addValues(set, props) ==
    IF props = <<>> THEN set
    ELSE addValues(IF IsObjectOrFunction(Head(props).value)
                   THEN SetAdd(set, Head(props).value.o) ELSE set, Tail(props))

\* addPrototype(native)
addPrototype(set, o) == IF IsObjectOrFunction(o.proto) THEN SetAdd(set, o.proto.o) ELSE set

\* addProperties(native) without the delegation parent
addPropertiesValuesOnly(h, set, id) == addValues(set, h[id].props)

\* addProperties(native)
addProperties(h, set, id) == addPrototype(addValues(set, h[id].props), h[id])

\* the loop "for (const native of nativeSet)" from position pos on
RECURSIVE addNativesFrom(_, _, _)
addNativesFrom(h, set, pos) ==
    IF pos > Len(set) THEN set
    ELSE addNativesFrom(h, addProperties(h, set, set[pos]), pos + 1)

\* addNatives with the objects it registers put in front of the registry
addNativesInFront(h, set, newNatives) ==
    LET all == addNativesFrom(h, SetAddAll(set, newNatives), Len(set) + 1)
    IN  SubSeq(all, Len(set) + 1, Len(all)) \o set

\* addNatives(...newNatives): the new contents of nativeSet and natives
addNatives(h, set, newNatives) ==
    addNativesFrom(h, SetAddAll(set, newNatives), Len(set) + 1)

(***************************************************************************)
(* State.                                                                  *)
(*   heap       the objects (index = identity)                             *)
(*   natives    the exported registry array (object identities)           *)
(*   nextSym    number of unique symbols created so far                    *)
(*   pc         where the program is                                       *)
(*   root       the argument of serialize                                  *)
(*   objects, symbols, parsed, serialized : locals of serializeComplex     *)
(*   text       the envelope: result of serialize, argument of deserialize *)
(*   output, dsymbols, pos : locals of parseComplex                        *)
(*   result     what deserialize returned, or what was thrown              *)
(*   returned   the calls of serialize that have returned: argument, text  *)
(***************************************************************************)
VARIABLES heap, natives, nextSym, pc, root, objects, symbols, parsed,
          serialized, text, output, dsymbols, pos, result, returned

vars == <<heap, natives, nextSym, pc, root, objects, symbols, parsed,
          serialized, text, output, dsymbols, pos, result, returned>>

\* typeof value
TypeOf(v) ==
    CASE v.t = "null" -> "object"
      [] v.t = "object" -> IF heap[v.o].kind = "function" THEN "function" ELSE "object"
      [] OTHER -> v.t

\* element i (counted from 0) of an array, undefined out of range
At(list, i) == IF i >= 0 /\ i < Len(list) THEN list[i + 1] ELSE Undef

\* list.findIndex(v => v === value), counted from 0, -1 when not found
FindIndex(list, value) ==
    IF \E i \in 1..Len(list) : list[i] = value
    THEN (CHOOSE i \in 1..Len(list) :
            list[i] = value /\ \A j \in 1..(i - 1) : list[j] # value) - 1
    ELSE -1

\* findNativeIndex(object)
findNativeIndex(object) ==
    IF IsRef(object) THEN FindIndex(natives, object.o) ELSE -1

\* getValueType(value) without the case of null: typeof null is "object"
getValueTypeNullAsObject(value) ==
    IF TypeOf(value) \in {"string", "number", "boolean"}
    THEN JSONREADY
    ELSE CASE TypeOf(value) = "bigint" -> BIGINT
           [] TypeOf(value) = "symbol" -> SYMBOL
           [] TypeOf(value) = "undefined" -> UNDEFINED
           [] OTHER -> IF findNativeIndex(value) # -1 THEN NATIVE ELSE COMPLEX

\* getValueType(value)
getValueType(value) ==
    IF value = Null \/ TypeOf(value) \in {"string", "number", "boolean"}
    THEN JSONREADY
    ELSE CASE TypeOf(value) = "bigint" -> BIGINT
           [] TypeOf(value) = "symbol" -> SYMBOL
           [] TypeOf(value) = "undefined" -> UNDEFINED
           [] OTHER -> IF findNativeIndex(value) # -1 THEN NATIVE ELSE COMPLEX

\* a string that is not the text of a value: a symbol key, a property name
Raw(s) == [q |-> "raw", s |-> s]

\* serializeBasic with the registry index counted from 1
serializeBasicOneBased(type, basic) ==
    CASE type = JSONREADY -> JSONstringify(basic)
      [] type = BIGINT -> Numeral(basic.g)
      [] type = SYMBOL -> IF SymbolKeyFor(basic) = Undef THEN NoText
                          ELSE Raw(SymbolKeyFor(basic).s)
      [] type = UNDEFINED -> Empty
      [] type = NATIVE -> Numeral(findNativeIndex(basic) + 1)

\* serializeBasic(type, basic)
serializeBasic(type, basic) ==
    CASE type = JSONREADY -> JSONstringify(basic)
      [] type = BIGINT -> Numeral(basic.g)
      [] type = SYMBOL -> IF SymbolKeyFor(basic) = Undef THEN NoText
                          ELSE Raw(SymbolKeyFor(basic).s)
      [] type = UNDEFINED -> Empty
      [] type = NATIVE -> Numeral(findNativeIndex(basic))

\* String(x) of what stands where a text is expected
TextString(x) ==
    CASE x.q = "raw" -> x.s
      [] x.q = "jsonnull" -> "null"
      [] x.q = "absent" -> "undefined"
      [] OTHER -> "other"

\* parseBasic(type, value); a switch without default returns undefined
parseBasic(type, value) ==
    CASE type = JSONREADY -> JSONparse(value)
      [] type = BIGINT -> IF value.q = "numeral" THEN Big(value.n) ELSE Threw("SyntaxError")
      [] type = SYMBOL -> SymbolFor(TextString(value))
      [] type = UNDEFINED -> Undef
      [] type = NATIVE -> IF value.q = "numeral" /\ value.n \in 0..(Len(natives) - 1)
                          THEN Ref(natives[value.n + 1]) ELSE Undef
      [] OTHER -> Undef

(***************************************************************************)
(* serializeComplex.                                                       *)
(***************************************************************************)
\* an index where the envelope holds a number
Idx(n) == [idx |-> n]

\* findOrAdd with a new value put at the front of the list (unshift)
findOrAddFront(list, value) ==
    LET valueIndex == FindIndex(list, value)
    IN  IF valueIndex = -1
        THEN [list |-> <<value>> \o list, index |-> 0]
        ELSE [list |-> list, index |-> valueIndex]

\* findOrAdd that returns list.length after the push, without the - 1
findOrAddLengthAfterPush(list, value) ==
    LET valueIndex == FindIndex(list, value)
    IN  IF valueIndex = -1
        THEN [list |-> Append(list, value), index |-> Len(list) + 1]
        ELSE [list |-> list, index |-> valueIndex]

\* findOrAdd(list, value): the list afterwards and the index returned
findOrAdd(list, value) ==
    LET valueIndex == FindIndex(list, value)
    IN  IF valueIndex = -1
        THEN [list |-> Append(list, value), index |-> Len(list)]
        ELSE [list |-> list, index |-> valueIndex]

\* getFunctionString(object)
getFunctionString(object) == heap[object.o].src

\* the key of a property record, with the result of Symbol.keyFor compared
\* with null: a symbol that is not registered goes the way of a registered one
SerializeKeyNullCheck(key, syms) ==
    IF key.t = "string"
    THEN [symbols |-> syms, key |-> [type |-> STRING_KEY, value |-> Raw(key.s)]]
    ELSE [symbols |-> syms,
          key |-> [type |-> NATIVE_SYMBOL,
                   value |-> IF SymbolKeyFor(key) = Undef THEN NoText
                             ELSE Raw(SymbolKeyFor(key).s)]]

\* the key of a property record, with every custom symbol pushed on the
\* symbol table without a look for it
SerializeKeyAlwaysPush(key, syms) ==
    IF key.t = "string"
    THEN [symbols |-> syms, key |-> [type |-> STRING_KEY, value |-> Raw(key.s)]]
    ELSE IF SymbolKeyFor(key) = Undef
         THEN [symbols |-> Append(syms, key.y),
               key |-> [type |-> CUSTOM_SYMBOL, value |-> Idx(Len(syms))]]
         ELSE [symbols |-> syms,
               key |-> [type |-> NATIVE_SYMBOL, value |-> Raw(SymbolKeyFor(key).s)]]

\* the key of a property record; syms is the symbol table before, the
\* result holds the table afterwards
SerializeKey(key, syms) ==
    IF key.t = "string"
    THEN [symbols |-> syms, key |-> [type |-> STRING_KEY, value |-> Raw(key.s)]]
    ELSE IF SymbolKeyFor(key) = Undef
         THEN LET r == findOrAdd(syms, key.y)
              IN  [symbols |-> r.list,
                   key |-> [type |-> CUSTOM_SYMBOL, value |-> Idx(r.index)]]
         ELSE [symbols |-> syms,
               key |-> [type |-> NATIVE_SYMBOL, value |-> Raw(SymbolKeyFor(key).s)]]

\* one pass of the loop "for (const key of Reflect.ownKeys(current))":
\* the identity table, the symbol table and the property record
SerializeProperty(raw, objs, syms) ==
    LET k == SerializeKey(raw.key, syms)
        g == IF TypeOf(raw.get) = "function" THEN findOrAdd(objs, raw.get)
             ELSE [list |-> objs, index |-> -1]
        st == IF TypeOf(raw.set) = "function" THEN findOrAdd(g.list, raw.set)
              ELSE [list |-> g.list, index |-> -1]
        type == getValueType(raw.value)
        v == IF type = COMPLEX THEN findOrAdd(st.list, raw.value)
             ELSE [list |-> st.list, index |-> -1]
        descriptor ==
            [configurable |-> raw.configurable,
             enumerable |-> raw.enumerable,
             writable |-> IF raw.acc THEN TRUE ELSE raw.writable,
             get |-> g.index,
             set |-> st.index,
             value |-> IF g.index = -1 /\ st.index = -1
                       THEN (IF v.index = -1 THEN serializeBasic(type, raw.value)
                             ELSE Idx(v.index))
                       ELSE Idx(-1)]
    IN  [objects |-> v.list, symbols |-> k.symbols,
         prop |-> [key |-> k.key, type |-> type, descriptor |-> descriptor]]

RECURSIVE SerializeProperties(_, _, _, _)
SerializeProperties(raws, objs, syms, props) ==
    IF raws = <<>> THEN [objects |-> objs, symbols |-> syms, props |-> props]
    ELSE \* r is bound by a set, which makes it a value that is computed once
         CHOOSE done \in
            {SerializeProperties(Tail(raws), r.objects, r.symbols, Append(props, r.prop)) :
                r \in {SerializeProperty(Head(raws), objs, syms)}} : TRUE

\* the kind of a record: Array.isArray, typeof
ObjectTypeOf(current) ==
    IF current # Null /\ heap[current.o].kind = "array" THEN ARRAY
    ELSE IF TypeOf(current) = "function" THEN FUNCTION ELSE NORMAL

\* the body of the worklist loop for a non-native current:
\* the tables afterwards and the record pushed
SerializeObject(current, objs, syms) ==
    LET type == ObjectTypeOf(current)
        proto == heap[current.o].proto
        nativeProto == findNativeIndex(proto) # -1
        pr == IF nativeProto THEN [list |-> objs, index |-> findNativeIndex(proto)]
              ELSE findOrAdd(objs, proto)
        r == SerializeProperties(heap[current.o].props, pr.list, syms, <<>>)
    IN  [objects |-> r.objects, symbols |-> r.symbols,
         entry |-> [type |-> type,
                    fun |-> IF type = FUNCTION THEN getFunctionString(current) ELSE <<>>,
                    proto |-> [native |-> nativeProto, index |-> pr.index],
                    props |-> r.props]]

\* the body of the worklist loop without the check for a native current
SerializeEntryNoNativeCheck(current, objs, syms) == SerializeObject(current, objs, syms)

\* the body of the worklist loop: a native current gives its registry index
\* and nothing else is looked at
SerializeEntry(current, objs, syms) ==
    LET nativeIndex == findNativeIndex(current)
    IN  IF nativeIndex # -1
        THEN [objects |-> objs, symbols |-> syms, entry |-> [n |-> nativeIndex]]
        ELSE SerializeObject(current, objs, syms)

\* Object.getPrototypeOf(current) throws a TypeError for null
SerializeThrows(current) == findNativeIndex(current) = -1 /\ ~IsRef(current)

(***************************************************************************)
(* parseFunctionString.                                                    *)
(***************************************************************************)
IsSpace(c) == c \in {" ", "\n"}

\* position of the first / last token c of str, 0 when there is none
FirstPos(str, c) ==
    IF \E i \in 1..Len(str) : str[i] = c
    THEN CHOOSE i \in 1..Len(str) : str[i] = c /\ \A j \in 1..(i - 1) : str[j] # c
    ELSE 0
LastPos(str, c) ==
    IF \E i \in 1..Len(str) : str[i] = c
    THEN CHOOSE i \in 1..Len(str) : str[i] = c /\ \A j \in (i + 1)..Len(str) : str[j] # c
    ELSE 0

\* the tokens of str that are not in skip, in order
RECURSIVE SelectTokens(_, _)
SelectTokens(str, skip) ==
    IF str = <<>> THEN <<>>
    ELSE IF Head(str) \in skip THEN SelectTokens(Tail(str), skip)
    ELSE <<Head(str)>> \o SelectTokens(Tail(str), skip)

\* str.match(/^\s*class/) !== null
IsClassSource(str) ==
    \E i \in 1..Len(str) : str[i] = "class" /\ \A j \in 1..(i - 1) : IsSpace(str[j])

\* str.match(/(?<=^[^(]*\()[^)]*/)?.[0], as [found, text]
MatchParamstr(str) ==
    LET open == FirstPos(str, "(")
        rest == SubSeq(str, open + 1, Len(str))
        close == FirstPos(rest, ")")
    IN  IF open = 0 THEN [found |-> FALSE, text |-> <<>>]
        ELSE [found |-> TRUE,
              text |-> IF close = 0 THEN rest ELSE SubSeq(rest, 1, close - 1)]

\* [...paramstr.matchAll(/[^\s,]/g)].map(param => param[0])
MatchParams(paramstr) == SelectTokens(paramstr, {" ", "\n", ","})

\* str.match(/(?<=^[^{]*{)[^]*(?=}[^}]*$)/)?.[0], as [found, text]
MatchBody(str) ==
    LET open == FirstPos(str, "{")
        close == LastPos(str, "}")
    IN  IF open = 0 \/ close <= open THEN [found |-> FALSE, text |-> <<>>]
        ELSE [found |-> TRUE, text |-> SubSeq(str, open + 1, close - 1)]

\* does Function(...params, fun) compile
Punctuation == {"(", ")", "{", "}", "=>", "[native code]", "class", "function"}
Compiles(params, fun) ==
    /\ \A i \in 1..Len(params) : params[i] \notin Punctuation
    /\ \A i \in 1..Len(fun) : fun[i] # "[native code]"
    /\ Cardinality({i \in 1..Len(fun) : fun[i] = "{"})
         = Cardinality({i \in 1..Len(fun) : fun[i] = "}"})

\* the source text of Function(...params, fun)
RECURSIVE JoinParams(_)
JoinParams(params) ==
    IF Len(params) <= 1 THEN params
    ELSE <<Head(params), ",">> \o JoinParams(Tail(params))
FunctionSource(params, fun) ==
    <<"function", " ", "anonymous", "(">> \o JoinParams(params)
        \o <<"\n", ")", " ", "{", "\n">> \o fun \o <<"\n", "}">>

\* the name and the number of constructor parameters of a class source
ClassName(str) ==
    LET named == SelectTokens(SubSeq(str, 1, FirstPos(str, "{") - 1), {" ", "\n", "class"})
    IN  IF named = <<>> THEN "" ELSE Head(named)
ClassLength(str) ==
    LET ctor == FirstPos(str, "constructor")
    IN  IF ctor = 0 THEN 0
        ELSE Len(MatchParams(MatchParamstr(SubSeq(str, ctor, Len(str))).text))

\* parseFunctionString(str): the objects it allocates at heap address at
\* (the callable first, then its prototype object); <<>> stands for null
parseFunctionString(str, at) ==
    IF IsClassSource(str)
    THEN \* eval(`a = ${str}`)
         << Obj("function", Ref(FUNPROTO),
                <<Fixed("length", Num(ClassLength(str))), Fixed("name", Str(ClassName(str))),
                  DataProp(Str("prototype"), Ref(at + 1), FALSE, FALSE, FALSE)>>, str),
            Obj("normal", Ref(OBJPROTO), <<Hidden("constructor", Ref(at))>>, <<>>) >>
    ELSE LET paramstr == MatchParamstr(str)
             params == MatchParams(paramstr.text)
             fun == MatchBody(str)
         IN  IF ~paramstr.found \/ ~fun.found \/ ~Compiles(params, fun.text)
             THEN <<>>
             ELSE \* Function(...params, fun)
                  << Obj("function", Ref(FUNPROTO),
                         <<Fixed("length", Num(Len(params))), Fixed("name", Str("anonymous")),
                           DataProp(Str("prototype"), Ref(at + 1), FALSE, FALSE, TRUE)>>,
                         FunctionSource(params, fun.text)),
                     Obj("normal", Ref(OBJPROTO), <<Hidden("constructor", Ref(at))>>, <<>>) >>

(***************************************************************************)
(* parseComplex, pass 1: the shell of one entry of the object list.        *)
(***************************************************************************)
IsNativeEntry(object) == "n" \in DOMAIN object        \* typeof object === "number"

EmptyObject == Obj("normal", Ref(OBJPROTO), <<>>, <<>>)                       \* {}
EmptyArray == Obj("array", Ref(ARRPROTO),
                  <<DataProp(Str("length"), Num(0), FALSE, FALSE, TRUE)>>, <<>>) \* []

\* what "construct objects" does for one entry: the objects allocated and
\* the value pushed on output, or the exception thrown
ConstructShell(object, at) ==
    IF IsNativeEntry(object)
    THEN [new |-> <<>>, threw |-> FALSE,
          value |-> IF object.n \in 0..(Len(natives) - 1)
                    THEN Ref(natives[object.n + 1]) ELSE Undef]
    ELSE CASE object.type = NORMAL ->
                [new |-> <<EmptyObject>>, value |-> Ref(at), threw |-> FALSE]
           [] object.type = ARRAY ->
                [new |-> <<EmptyArray>>, value |-> Ref(at), threw |-> FALSE]
           [] object.type = FUNCTION ->
                LET made == parseFunctionString(object.fun, at)
                IN  [new |-> made, threw |-> FALSE,
                     value |-> IF made = <<>> THEN Null ELSE Ref(at)]
           [] OTHER ->
                [new |-> <<>>, value |-> Undef, threw |-> TRUE]

(***************************************************************************)
(* parseComplex, pass 2: keys, descriptors, Object.defineProperty and      *)
(* Object.setPrototypeOf.                                                  *)
(***************************************************************************)
\* the switch on prop.key.type; key stays undefined without a matching case
ResolveKey(key, syms) ==
    CASE key.type = STRING_KEY -> Str(key.value.s)
      [] key.type = NATIVE_SYMBOL -> SymbolFor(key.value.s)
      [] key.type = CUSTOM_SYMBOL ->
            IF "idx" \in DOMAIN key.value /\ key.value.idx \in 0..(Len(syms) - 1)
            THEN Sym(syms[key.value.idx + 1]) ELSE Undef
      [] OTHER -> Undef

\* ToPropertyKey(key)
ToPropertyKey(key) == IF key.t = "symbol" THEN key ELSE Str(JSString(key))

\* the descriptor built from a property record; an absent field is a field
\* that the record has not got
BuildDescriptor(prop, out) ==
    LET d == prop.descriptor
    IN  [configurable |-> d.configurable,
         enumerable |-> d.enumerable,
         hasSet |-> d.set # -1,
         set |-> IF d.set # -1 THEN At(out, d.set) ELSE Undef,
         hasGet |-> d.get # -1,
         get |-> IF d.get # -1 THEN At(out, d.get) ELSE Undef,
         hasValue |-> d.set = -1 /\ d.get = -1,
         writable |-> d.writable,
         value |-> IF d.set = -1 /\ d.get = -1
                   THEN (IF prop.type = COMPLEX
                         THEN (IF "idx" \in DOMAIN d.value THEN At(out, d.value.idx)
                               ELSE Undef)
                         ELSE parseBasic(prop.type, d.value))
                   ELSE Undef]

\* is v a function
IsCallable(h, v) == IsRef(v) /\ h[v.o].kind = "function"

\* the length of an array object
ArrayLength(o) == OwnProp(o, Str("length")).value.n

\* the property that Object.defineProperty(o, key, descriptor) leaves at key
DefinedProp(o, key, descriptor) ==
    IF descriptor.hasValue
    THEN DataProp(key, descriptor.value, descriptor.configurable,
                  descriptor.enumerable, descriptor.writable)
    ELSE LET old == IF HasOwn(o, key) /\ OwnProp(o, key).acc THEN OwnProp(o, key)
                    ELSE AccProp(key, Undef, Undef, FALSE, FALSE)
         IN  AccProp(key,
                     IF descriptor.hasGet THEN descriptor.get ELSE old.get,
                     IF descriptor.hasSet THEN descriptor.set ELSE old.set,
                     descriptor.configurable, descriptor.enumerable)

\* the own properties of o after Object.defineProperty(o, key, descriptor):
\* an existing key keeps its place, a new key is added in own-key order, an
\* array grows its length to hold a new index
DefineOwnProperty(o, key, descriptor) ==
    LET p == DefinedProp(o, key, descriptor)
        placed == IF HasOwn(o, key)
                  THEN [o.props EXCEPT ![PropPos(o.props, key)] = p]
                  ELSE InsertProp(o.props, p)
        len == PropPos(placed, Str("length"))
    IN  IF o.kind = "array" /\ IsIndex(key) /\ IndexOf(key) >= ArrayLength(o)
        THEN [placed EXCEPT ![len].value = Num(IndexOf(key) + 1)]
        ELSE placed

\* does Object.defineProperty(o, key, descriptor) throw a TypeError
DefineThrows(h, o, key, descriptor) ==
    \/ descriptor.hasGet /\ descriptor.get # Undef /\ ~IsCallable(h, descriptor.get)
    \/ descriptor.hasSet /\ descriptor.set # Undef /\ ~IsCallable(h, descriptor.set)
    \/ /\ o.kind = "array" /\ IsIndex(key) /\ IndexOf(key) >= ArrayLength(o)
       /\ ~OwnProp(o, Str("length")).writable

\* the body of the property loop without the look at the existing descriptor
PopulatePropertyNoSkip(h, target, prop, syms, out) ==
    LET key == ToPropertyKey(ResolveKey(prop.key, syms))
    IN  IF ~IsRef(target)
        THEN [heap |-> h, threw |-> TRUE]
        ELSE LET o == h[target.o]
                 descriptor == BuildDescriptor(prop, out)
             IN  IF IsThrow(descriptor.value) \/ DefineThrows(h, o, key, descriptor)
                 THEN [heap |-> h, threw |-> TRUE]
                 ELSE [heap |-> [h EXCEPT ![target.o].props =
                                     DefineOwnProperty(o, key, descriptor)],
                       threw |-> FALSE]

\* the body of the loop "for (const prop of input[i].props)" for one
\* property: the heap afterwards, or the exception
PopulateProperty(h, target, prop, syms, out) ==
    LET key == ToPropertyKey(ResolveKey(prop.key, syms))
    IN  IF ~IsRef(target)
        THEN [heap |-> h, threw |-> TRUE]     \* getOwnPropertyDescriptor(null, key)
        ELSE LET o == h[target.o]
                 descriptor == BuildDescriptor(prop, out)
             IN  IF HasOwn(o, key) /\ ~OwnProp(o, key).configurable
                 THEN [heap |-> h, threw |-> FALSE]                  \* continue
                 ELSE IF IsThrow(descriptor.value) \/ DefineThrows(h, o, key, descriptor)
                 THEN [heap |-> h, threw |-> TRUE]
                 ELSE [heap |-> [h EXCEPT ![target.o].props =
                                     DefineOwnProperty(o, key, descriptor)],
                       threw |-> FALSE]

RECURSIVE PopulateProperties(_, _, _, _, _)
PopulateProperties(h, target, props, syms, out) ==
    IF props = <<>> THEN [heap |-> h, threw |-> FALSE]
    ELSE \* r is bound by a set, which makes it a value that is computed once
         CHOOSE done \in
            {IF r.threw THEN r
             ELSE PopulateProperties(r.heap, target, Tail(props), syms, out) :
                r \in {PopulateProperty(h, target, Head(props), syms, out)}} : TRUE

\* the delegation parent named by a record
ResolveProto(proto, out) ==
    IF proto.native
    THEN (IF proto.index \in 0..(Len(natives) - 1)
          THEN Ref(natives[proto.index + 1]) ELSE Undef)
    ELSE At(out, proto.index)

\* Object.setPrototypeOf left out: the shell keeps the parent it was made with
SetPrototypeOfSkipped(h, target, proto) ==
    IF ~IsRef(target) \/ (~IsRef(proto) /\ proto # Null)
    THEN [heap |-> h, threw |-> TRUE]
    ELSE [heap |-> h, threw |-> FALSE]

\* Object.setPrototypeOf with its arguments in the other order
SetPrototypeOfSwapped(h, target, proto) ==
    IF ~IsRef(target) \/ ~IsRef(proto)
    THEN [heap |-> h, threw |-> TRUE]
    ELSE [heap |-> [h EXCEPT ![proto.o].proto = target], threw |-> FALSE]

\* Object.setPrototypeOf(target, proto): the heap afterwards, or the exception
SetPrototypeOf(h, target, proto) ==
    IF ~IsRef(target) \/ (~IsRef(proto) /\ proto # Null)
    THEN [heap |-> h, threw |-> TRUE]
    ELSE [heap |-> [h EXCEPT ![target.o].proto = proto], threw |-> FALSE]

\* one pass of the loop "populate objects" for a record
PopulateObject(h, i, input, syms, out) ==
    LET r == PopulateProperties(h, At(out, i), input[i + 1].props, syms, out)
    IN  IF r.threw THEN r
        ELSE SetPrototypeOf(r.heap, At(out, i), ResolveProto(input[i + 1].proto, out))

(***************************************************************************)
(* The inputs: a ring of objects a.b = b, b.a = a, ... and an array, built *)
(* behind the fixed objects; and the values serialize is called with.      *)
(***************************************************************************)
RingKeys == <<"b", "a", "c", "d", "e">>
RingAt(j) == Len(FixedHeap) + j
RingHeap(k) ==
    [j \in 1..k |-> Obj("normal", Ref(OBJPROTO),
                        <<Plain(RingKeys[j], Ref(RingAt((j % k) + 1)))>>, <<>>)]

\* an array of the given length whose first fill elements are set
ArrayAt(k) == Len(FixedHeap) + k + 1
ArrayObj(len, fill) ==
    Obj("array", Ref(ARRPROTO),
        [i \in 1..fill |-> Plain(IndexNames[i], Str("e"))]
            \o <<DataProp(Str("length"), Num(len), FALSE, FALSE, TRUE)>>, <<>>)

InputHeap(k, len, fill) == FixedHeap \o RingHeap(k) \o <<ArrayObj(len, fill)>>

Primitives ==
    {Null, Undef, Bool(TRUE), Bool(FALSE), Str("Hello World"), Str(""),
     NonFinite("Infinity"), Big(7), SymbolFor("k"), Sym(Sym2)}
        \cup {Num(n) : n \in (-1)..MaxNum}

FixedRoots == Primitives \cup {Ref(o) : o \in 1..Len(FixedHeap)}

Init ==
    /\ \E k \in 1..MaxRing, len \in 0..MaxLen :
         \E fill \in 0..len :
            /\ heap = InputHeap(k, len, fill)
            /\ \/ k = 1 /\ len = 0 /\ root \in FixedRoots
               \/ len = 0 /\ root = Ref(RingAt(1))
               \/ k = 1 /\ root = Ref(ArrayAt(k))
    /\ natives = addNatives(FixedHeap, <<>>, <<GLOBAL>>)
    /\ nextSym = 2
    /\ pc = "start"
    /\ objects = <<>>
    /\ symbols = <<>>
    /\ parsed = <<>>
    /\ serialized = 0
    /\ text = [type |-> UNDEFINED, value |-> Empty]
    /\ output = <<>>
    /\ dsymbols = <<>>
    /\ pos = 0
    /\ result = Undef
    /\ returned = <<>>

(***************************************************************************)
(* serialize: the call, the passes of the worklist loop, the return.       *)
(***************************************************************************)
\* JSON.stringify of the slot of a basic value: undefined becomes null
ArraySlot(x) == IF x = NoText THEN NullText ELSE x

\* the tables of serializeComplex, kept from one call to the next
NewTablesKept(complex) ==
    [parsed |-> parsed, objects |-> <<complex>>, symbols |-> symbols]

\* the tables that serializeComplex creates when it is called
NewTables(complex) ==
    [parsed |-> <<>>, objects |-> <<complex>>, symbols |-> <<>>]

serialize ==
    /\ pc = "start"
    /\ LET type == getValueType(root)
       IN  IF type = COMPLEX
           THEN /\ objects' = NewTables(root).objects
                /\ symbols' = NewTables(root).symbols
                /\ parsed' = NewTables(root).parsed
                /\ pc' = "serializing"
                /\ text' = text
                /\ returned' = returned
           ELSE /\ objects' = <<>>
                /\ symbols' = <<>>
                /\ parsed' = <<>>
                /\ pc' = "serialized"
                /\ text' = [type |-> type, value |-> ArraySlot(serializeBasic(type, root))]
                /\ returned' = Append(returned, [arg |-> root, text |-> text'])
    /\ serialized' = 0
    /\ UNCHANGED <<heap, natives, nextSym, root, output, dsymbols, pos, result>>

\* the worklist loop as a loop whose pass for a native object ends before
\* the index is emitted and the position advanced
serializeStepNoAdvance ==
    /\ pc = "serializing"
    /\ serialized < Len(objects)
    /\ LET current == objects[serialized + 1]
       IN  IF SerializeThrows(current)
           THEN /\ pc' = "threw"
                /\ result' = Threw("TypeError")
                /\ UNCHANGED <<objects, symbols, parsed, serialized>>
           ELSE IF findNativeIndex(current) # -1
           THEN UNCHANGED <<objects, symbols, parsed, serialized, pc, result>>
           ELSE LET r == SerializeEntry(current, objects, symbols)
                IN  /\ objects' = r.objects
                    /\ symbols' = r.symbols
                    /\ parsed' = Append(parsed, r.entry)
                    /\ serialized' = serialized + 1
                    /\ UNCHANGED <<pc, result>>
    /\ UNCHANGED <<heap, natives, nextSym, root, text, output, dsymbols, pos, returned>>

serializeStep ==
    /\ pc = "serializing"
    /\ serialized < Len(objects)
    /\ LET current == objects[serialized + 1]
       IN  IF SerializeThrows(current)
           THEN /\ pc' = "threw"
                /\ result' = Threw("TypeError")
                /\ UNCHANGED <<objects, symbols, parsed, serialized>>
           ELSE LET r == SerializeEntry(current, objects, symbols)
                IN  /\ objects' = r.objects
                    /\ symbols' = r.symbols
                    /\ parsed' = Append(parsed, r.entry)
                    /\ serialized' = serialized + 1
                    /\ UNCHANGED <<pc, result>>
    /\ UNCHANGED <<heap, natives, nextSym, root, text, output, dsymbols, pos, returned>>

\* the return of serializeComplex with the registry indices left out of the
\* object list
serializeReturnRecordsOnly ==
    /\ pc = "serializing"
    /\ serialized = Len(objects)
    /\ text' = [type |-> COMPLEX,
                value |-> [objects |-> SelectSeq(parsed, LAMBDA e : "props" \in DOMAIN e),
                           symbols |-> [i \in 1..Len(symbols) |-> Description(symbols[i])]]]
    /\ pc' = "serialized"
    /\ returned' = Append(returned, [arg |-> root, text |-> text'])
    /\ UNCHANGED <<heap, natives, nextSym, root, objects, symbols, parsed,
                   serialized, output, dsymbols, pos, result>>

serializeReturn ==
    /\ pc = "serializing"
    /\ serialized = Len(objects)
    /\ text' = [type |-> COMPLEX,
                value |-> [objects |-> parsed,
                           symbols |-> [i \in 1..Len(symbols) |-> Description(symbols[i])]]]
    /\ pc' = "serialized"
    /\ returned' = Append(returned, [arg |-> root, text |-> text'])
    /\ UNCHANGED <<heap, natives, nextSym, root, objects, symbols, parsed,
                   serialized, output, dsymbols, pos, result>>

(***************************************************************************)
(* The envelope on its way: deserialize takes any text, so the envelope    *)
(* may arrive with one of its tags or keys replaced.                       *)
(***************************************************************************)
IsRecordEntry(e) == "props" \in DOMAIN e

\* the (record, property) positions of an object list
PropSlots(list) ==
    {<<j, p>> \in (1..Len(list)) \X (1..8) :
        IsRecordEntry(list[j]) /\ p <= Len(list[j].props)}

UnknownTopTag(x) == x.type \notin {JSONREADY, COMPLEX, BIGINT, SYMBOL, UNDEFINED, NATIVE}
UnknownKind(x) ==
    /\ x.type = COMPLEX
    /\ \E j \in 1..Len(x.value.objects) :
         /\ IsRecordEntry(x.value.objects[j])
         /\ x.value.objects[j].type \notin {NORMAL, FUNCTION, ARRAY}
UnknownValueTag(x) ==
    /\ x.type = COMPLEX
    /\ \E s \in PropSlots(x.value.objects) :
         x.value.objects[s[1]].props[s[2]].type
            \notin {JSONREADY, COMPLEX, BIGINT, SYMBOL, UNDEFINED, NATIVE}
UnknownKeyType(x) ==
    /\ x.type = COMPLEX
    /\ \E s \in PropSlots(x.value.objects) :
         x.value.objects[s[1]].props[s[2]].key.type
            \notin {STRING_KEY, NATIVE_SYMBOL, CUSTOM_SYMBOL}
AbsentSymbol(x) ==
    /\ x.type = COMPLEX
    /\ \E s \in PropSlots(x.value.objects) :
         LET key == x.value.objects[s[1]].props[s[2]].key
         IN  key.type = CUSTOM_SYMBOL /\ key.value.idx >= Len(x.value.symbols)
Malformed(x) ==
    UnknownTopTag(x) \/ UnknownKind(x) \/ UnknownValueTag(x) \/ UnknownKeyType(x)
        \/ AbsentSymbol(x)

Corrupt ==
    /\ pc = "serialized"
    /\ ~Malformed(text)
    /\ \/ text' = [text EXCEPT !.type = UnknownTag]
       \/ /\ text.type = COMPLEX
          /\ \E j \in 1..Len(text.value.objects) :
               /\ IsRecordEntry(text.value.objects[j])
               /\ text' = [text EXCEPT !.value.objects[j].type = UnknownTag]
       \/ /\ text.type = COMPLEX
          /\ \E s \in PropSlots(text.value.objects) :
               \/ text' = [text EXCEPT !.value.objects[s[1]].props[s[2]].type = UnknownTag]
               \/ text' = [text EXCEPT !.value.objects[s[1]].props[s[2]].key.type
                                            = UnknownTag]
               \/ text' = [text EXCEPT !.value.objects[s[1]].props[s[2]].key =
                              [type |-> CUSTOM_SYMBOL,
                               value |-> Idx(Len(text.value.symbols))]]
    /\ UNCHANGED <<heap, natives, nextSym, pc, root, objects, symbols, parsed,
                   serialized, output, dsymbols, pos, result, returned>>

(***************************************************************************)
(* deserialize: the call, pass 1 (construct objects), pass 2 (populate     *)
(* objects), the return.                                                   *)
(***************************************************************************)
\* "construct symbols": Symbol() for null, Symbol(desc) otherwise
ConstructSymbols(descs, first) ==
    [i \in 1..Len(descs) |->
        UniqSym(first + i, IF descs[i] = Null THEN Undef ELSE descs[i])]

deserialize ==
    /\ pc = "serialized"
    /\ IF text.type = COMPLEX
       THEN /\ dsymbols' = ConstructSymbols(text.value.symbols, nextSym)
            /\ nextSym' = nextSym + Len(text.value.symbols)
            /\ output' = <<>>
            /\ pos' = 0
            /\ pc' = IF Len(text.value.objects) = 0 THEN "pass2" ELSE "pass1"
            /\ result' = result
       ELSE LET r == parseBasic(text.type, text.value)
            IN  /\ result' = r
                /\ pc' = IF IsThrow(r) THEN "threw" ELSE "done"
                /\ UNCHANGED <<dsymbols, nextSym, output, pos>>
    /\ UNCHANGED <<heap, natives, root, objects, symbols, parsed, serialized, text,
                   returned>>

\* "construct objects" as a single pass: the shell of an entry is populated
\* as soon as it is allocated
constructObjectSinglePass ==
    /\ pc = "pass1"
    /\ pos < Len(text.value.objects)
    /\ LET entry == text.value.objects[pos + 1]
           r == ConstructShell(entry, Len(heap) + 1)
           out == Append(output, r.value)
           w == IF r.threw \/ IsNativeEntry(entry)
                THEN [heap |-> heap \o r.new, threw |-> r.threw]
                ELSE PopulateObject(heap \o r.new, pos, text.value.objects, dsymbols, out)
       IN  IF w.threw
           THEN /\ pc' = "threw"
                /\ result' = Threw("TypeError")
                /\ UNCHANGED <<heap, output, pos>>
           ELSE /\ heap' = w.heap
                /\ output' = out
                /\ pos' = IF pos + 1 = Len(text.value.objects) THEN 0 ELSE pos + 1
                /\ pc' = IF pos + 1 = Len(text.value.objects) THEN "pass2" ELSE "pass1"
                /\ result' = result
    /\ UNCHANGED <<natives, nextSym, root, objects, symbols, parsed, serialized,
                   text, dsymbols, returned>>

constructObject ==
    /\ pc = "pass1"
    /\ pos < Len(text.value.objects)
    /\ LET r == ConstructShell(text.value.objects[pos + 1], Len(heap) + 1)
       IN  IF r.threw
           THEN /\ pc' = "threw"
                /\ result' = Threw("Invalid complex type")
                /\ UNCHANGED <<heap, output, pos>>
           ELSE /\ heap' = heap \o r.new
                /\ output' = Append(output, r.value)
                /\ pos' = IF pos + 1 = Len(text.value.objects) THEN 0 ELSE pos + 1
                /\ pc' = IF pos + 1 = Len(text.value.objects) THEN "pass2" ELSE "pass1"
                /\ result' = result
    /\ UNCHANGED <<natives, nextSym, root, objects, symbols, parsed, serialized,
                   text, dsymbols, returned>>

populateObject ==
    /\ pc = "pass2"
    /\ pos < Len(text.value.objects)
    /\ IF IsNativeEntry(text.value.objects[pos + 1])
       THEN /\ pos' = pos + 1                                        \* continue
            /\ UNCHANGED <<heap, pc, result>>
       ELSE LET r == PopulateObject(heap, pos, text.value.objects, dsymbols, output)
            IN  IF r.threw
                THEN /\ pc' = "threw"
                     /\ result' = Threw("TypeError")
                     /\ UNCHANGED <<heap, pos>>
                ELSE /\ heap' = r.heap
                     /\ pos' = pos + 1
                     /\ UNCHANGED <<pc, result>>
    /\ UNCHANGED <<natives, nextSym, root, objects, symbols, parsed, serialized,
                   text, output, dsymbols, returned>>

parseReturn ==
    /\ pc = "pass2"
    /\ pos = Len(text.value.objects)
    /\ result' = At(output, 0)
    /\ pc' = "done"
    /\ UNCHANGED <<heap, natives, nextSym, root, objects, symbols, parsed,
                   serialized, text, output, dsymbols, pos, returned>>

\* deserialize(serialize(root))
Next ==
    \/ serialize
    \/ serializeStep
    \/ serializeReturn
    \/ deserialize
    \/ constructObject
    \/ populateObject
    \/ parseReturn

Spec == Init /\ [][Next]_vars

\* a call that has begun runs on: the program is one thread, and every step
\* of it that can be taken is taken
SpecFair == Init /\ [][Next]_vars /\ WF_vars(Next)

\* deserialize of an envelope that may have been altered on its way
NextWire ==
    \/ serialize
    \/ serializeStep
    \/ serializeReturn
    \/ Corrupt
    \/ deserialize
    \/ constructObject
    \/ populateObject
    \/ parseReturn

SpecWire == Init /\ [][NextWire]_vars

(***************************************************************************)
(* Several calls in one run: when a round trip is over, the caller starts  *)
(* the next one, on the same value or on another.                          *)
(***************************************************************************)
NextRoots == {Ref(SYMOBJ), Ref(SYMTWO), Str("Hello World")}

nextCall ==
    /\ pc \in {"done", "threw"}
    /\ Len(returned) < MaxCalls
    /\ root' \in {root} \cup NextRoots
    /\ pc' = "start"
    /\ UNCHANGED <<heap, natives, nextSym, objects, symbols, parsed, serialized,
                   text, output, dsymbols, pos, result, returned>>

NextCalls ==
    \/ serialize
    \/ serializeStep
    \/ serializeReturn
    \/ deserialize
    \/ constructObject
    \/ populateObject
    \/ parseReturn
    \/ nextCall

SpecCalls == Init /\ [][NextCalls]_vars

(***************************************************************************)
(* The registry in use: before a round trip the caller may register        *)
(* objects of its own with addNatives, and a registered object may have    *)
(* been given a property since it was registered (globalThis.late = leaf). *)
(***************************************************************************)
NewNativeLists == {<<SHARED>>, <<INST>>, <<GLOBAL>>, <<LEAF, PAIR>>}

addNativesCall ==
    /\ pc = "start"
    /\ \E newNatives \in NewNativeLists :
         natives' = addNatives(heap, natives, newNatives)
    /\ UNCHANGED <<heap, nextSym, pc, root, objects, symbols, parsed, serialized,
                   text, output, dsymbols, pos, result, returned>>

assignGlobal ==
    /\ pc = "start"
    /\ ~HasOwn(heap[GLOBAL], Str("late"))
    /\ heap' = [heap EXCEPT ![GLOBAL].props = Append(@, Plain("late", Ref(LEAF)))]
    /\ UNCHANGED <<natives, nextSym, pc, root, objects, symbols, parsed, serialized,
                   text, output, dsymbols, pos, result, returned>>

NextRegistry ==
    \/ addNativesCall
    \/ assignGlobal
    \/ serialize
    \/ serializeStep
    \/ serializeReturn
    \/ deserialize
    \/ constructObject
    \/ populateObject
    \/ parseReturn

SpecRegistry == Init /\ [][NextRegistry]_vars

(***************************************************************************)
(* Reading the object graph: property access, paths, reachability.         *)
(***************************************************************************)
IsNative(v) == findNativeIndex(v) # -1

\* o[k] for a data property, looked up along the delegation chain
RECURSIVE GetProp(_, _, _)
GetProp(h, v, k) ==
    IF ~IsRef(v) THEN Undef
    ELSE IF HasOwn(h[v.o], k)
         THEN (IF OwnProp(h[v.o], k).acc THEN Undef ELSE OwnProp(h[v.o], k).value)
         ELSE GetProp(h, h[v.o].proto, k)

\* v.k1.k2...kn
RECURSIVE Follow(_, _, _)
Follow(h, v, path) ==
    IF path = <<>> THEN v ELSE Follow(h, GetProp(h, v, Head(path)), Tail(path))

\* the property paths of at most n own data properties that start at v
RECURSIVE PathsFrom(_, _, _)
PathsFrom(h, v, n) ==
    IF n = 0 \/ ~IsRef(v) THEN {<<>>}
    ELSE {<<>>} \cup UNION {
            {<<h[v.o].props[i].key>> \o rest :
                rest \in PathsFrom(h, h[v.o].props[i].value, n - 1)} :
            i \in {j \in 1..Len(h[v.o].props) : IsRef(h[v.o].props[j].value)}}

\* the non-empty paths that lead from v back to v
CyclePaths(h, v) == {path \in PathsFrom(h, v, MaxPath) : path # <<>> /\ Follow(h, v, path) = v}

\* the objects one step away: values of own properties, accessor functions,
\* delegation parent
Successors(h, o) ==
    {h[o].props[i].value.o : i \in {j \in 1..Len(h[o].props) : IsRef(h[o].props[j].value)}}
        \cup {h[o].props[i].get.o : i \in {j \in 1..Len(h[o].props) : IsRef(h[o].props[j].get)}}
        \cup {h[o].props[i].set.o : i \in {j \in 1..Len(h[o].props) : IsRef(h[o].props[j].set)}}
        \cup (IF IsRef(h[o].proto) THEN {h[o].proto.o} ELSE {})

RECURSIVE ReachFrom(_, _)
ReachFrom(h, seen) ==
    LET more == seen \cup UNION {Successors(h, o) : o \in seen}
    IN  IF more = seen THEN seen ELSE ReachFrom(h, more)

\* how often value occurs in list
Count(list, value) == Cardinality({i \in 1..Len(list) : list[i] = value})

\* is the round trip of root over, one way or the other
Over == pc \in {"done", "threw"}

(***************************************************************************)
(* The claims.                                                             *)
(***************************************************************************)

\* C1: for every object graph with cycles, the root x that
\* deserialize(serialize(root)) returns is reached again from x by every
\* property path that leads from the original root back to the original root
\* (x.a === x, x.b.a === x, ...).
C1_CyclesPreserved ==
    (pc = "done" /\ IsRef(root) /\ ~IsNative(root)) =>
        \A path \in CyclePaths(heap, root) : Follow(heap, result, path) = result

\* the key under which the decoder defines the property of original key k
DecodedKey(k) ==
    IF k.t = "symbol" /\ SymbolKeyFor(k) = Undef
    THEN Sym(dsymbols[FindIndex(symbols, k.y) + 1])
    ELSE k

\* the (table position, property position) pairs of the data properties of
\* the identity table that hold a non-native object
ObjectSlots ==
    {s \in (1..Len(objects)) \X (1..12) :
        /\ IsRef(objects[s[1]]) /\ ~IsNative(objects[s[1]])
        /\ s[2] <= Len(heap[objects[s[1]].o].props)
        /\ IsRef(heap[objects[s[1]].o].props[s[2]].value)
        /\ ~IsNative(heap[objects[s[1]].o].props[s[2]].value)}
SlotValue(s) == heap[objects[s[1]].o].props[s[2]].value
SlotRecord(s) == text.value.objects[s[1]].props[s[2]]
\* what the decoded object has at the key of the slot
SlotDecoded(s) == GetProp(heap, output[s[1]], DecodedKey(heap[objects[s[1]].o].props[s[2]].key))

\* C2, first part: the identity table never holds the same object twice.
C2_NoDuplicates ==
    \A i, j \in 1..Len(objects) : i # j => objects[i] # objects[j]

\* C2, second part: when serializeComplex has returned, every non-native
\* object reachable from the root is in the identity table exactly once.
C2_ReachableOnce ==
    (pc \in {"serialized", "pass1", "pass2", "done"} /\ text.type = COMPLEX) =>
        \A o \in ReachFrom(heap, {root.o}) : ~IsNative(Ref(o)) => Count(objects, Ref(o)) = 1

\* C2: the identity table holds no object twice, at the end it holds every
\* reachable non-native object exactly once, and two different properties
\* that hold the same object are encoded with the same index and decode to
\* one single shared object.
C2_IdentityTable ==
    /\ C2_NoDuplicates
    /\ C2_ReachableOnce
    /\ (pc = "done" /\ text.type = COMPLEX) =>
          \A s1, s2 \in ObjectSlots :
             (s1 # s2 /\ SlotValue(s1) = SlotValue(s2)) =>
                /\ SlotRecord(s1).descriptor.value = SlotRecord(s2).descriptor.value
                /\ SlotDecoded(s1) = SlotDecoded(s2)

\* C3: for every JSON-ready primitive v, deserialize(serialize(v)) equals v.
C3_JsonReadyRoundTrip ==
    (Over /\ getValueType(root) = JSONREADY) => (pc = "done" /\ result = root)

C5_NativeOnlyIndex ==
    [][(pc = "serializing" /\ serialized < Len(objects)
            /\ IsNative(objects[serialized + 1])) =>
        /\ parsed' = Append(parsed, [n |-> findNativeIndex(objects[serialized + 1])])
        /\ objects' = objects
        /\ symbols' = symbols
        /\ serialized' = serialized + 1
        /\ pc' = pc]_vars

C5_Witness ==
    /\ pc = "serializing"
    /\ serialized = 2
    /\ IsNative(objects[2])
    /\ IsNativeEntry(parsed[2])

\* the properties of o that have a getter and no setter
GetterOnly(o) ==
    {i \in 1..Len(o.props) : o.props[i].acc /\ IsRef(o.props[i].get) /\ o.props[i].set = Undef}

\* the body of a function, without its line breaks
BodyOf(h, f) == SelectTokens(MatchBody(h[f.o].src).text, {"\n"})

\* C6: a property with only a getter is, after deserialize(serialize(obj)),
\* still an accessor property of the decoded object, with a getter function
\* rebuilt from the original getter, no setter and no stored value.
C6_GetterOnlyStaysAccessor ==
    (Over /\ IsRef(root) /\ ~IsNative(root) /\ GetterOnly(heap[root.o]) # {}) =>
        /\ pc = "done"
        /\ IsRef(result)
        /\ \A i \in GetterOnly(heap[root.o]) :
             LET orig == heap[root.o].props[i]
             IN  /\ HasOwn(heap[result.o], orig.key)
                 /\ OwnProp(heap[result.o], orig.key).acc
                 /\ OwnProp(heap[result.o], orig.key).value = Undef
                 /\ OwnProp(heap[result.o], orig.key).set = Undef
                 /\ IsCallable(heap, OwnProp(heap[result.o], orig.key).get)
                 /\ BodyOf(heap, OwnProp(heap[result.o], orig.key).get)
                        = BodyOf(heap, orig.get)

\* array.push(elem): the own properties afterwards
ArrayPush(o, elem) ==
    DefineOwnProperty(o, Str(IndexNames[ArrayLength(o) + 1]),
        [configurable |-> TRUE, enumerable |-> TRUE, writable |-> TRUE,
         hasValue |-> TRUE, value |-> elem,
         hasGet |-> FALSE, get |-> Undef, hasSet |-> FALSE, set |-> Undef])

IsArray(h, v) == IsRef(v) /\ h[v.o].kind = "array"

\* C7: for every array a, deserialize(serialize(a)) is an array of length
\* a.length, and push adds exactly one to its length.
C7_ArrayLengthAndPush ==
    (Over /\ IsArray(heap, root) /\ ~IsNative(root)) =>
        /\ pc = "done"
        /\ IsArray(heap, result)
        /\ ArrayLength(heap[result.o]) = ArrayLength(heap[root.o])
        /\ GetProp(heap, result, Str("push")) = Ref(PUSH)
        /\ ArrayLength([heap[result.o] EXCEPT !.props = ArrayPush(heap[result.o], Str("d"))])
              = ArrayLength(heap[result.o]) + 1

\* is v an instance of a class of the program: its delegation parent is the
\* prototype object of a non-native function with a class source
IsClassInstance(h, v) ==
    /\ IsRef(v) /\ ~IsNative(v)
    /\ IsRef(h[v.o].proto) /\ ~IsNative(h[v.o].proto)
    /\ LET ctor == GetProp(h, h[v.o].proto, Str("constructor"))
       IN  /\ IsCallable(h, ctor)
           /\ IsClassSource(h[ctor.o].src)
           /\ GetProp(h, ctor, Str("prototype")) = h[v.o].proto

\* the own data properties of an object as (key, value) pairs, in order
OwnData(o) ==
    LET data == SelectSeq([i \in 1..Len(o.props) |-> o.props[i]], LAMBDA p : ~p.acc)
    IN  [i \in 1..Len(data) |-> <<data[i].key, data[i].value>>]

\* C8: for an instance b of a class of the program, the object that
\* deserialize(serialize(b)) returns has own data properties of the same
\* keys and the same values as b.
C8_ClassInstanceOwnData ==
    (Over /\ IsClassInstance(heap, root)) =>
        /\ pc = "done"
        /\ IsRef(result)
        /\ OwnData(heap[result.o]) = OwnData(heap[root.o])

\* C9: deserialize raises an error whenever the envelope carries a type tag
\* outside the defined set: as top-level tag, as kind of an object record,
\* or as value tag of a property record.
C9_UnknownTagFailsFast ==
    (UnknownTopTag(text) \/ UnknownKind(text) \/ UnknownValueTag(text)) => pc # "done"

\* C10: deserialize raises an error when the key of a property record names
\* a symbol index that the symbol table has not got, or has a key type that
\* is not defined; the shells get no property from such a record.
C10_UnresolvableKeyFailsFast ==
    (AbsentSymbol(text) \/ UnknownKeyType(text)) =>
        /\ pc # "done"
        /\ \A i \in 1..Len(output) :
             (IsRef(output[i]) /\ ~IsNative(output[i])) =>
                ~HasOwn(heap[output[i].o], Str("undefined"))

\* the function records of an envelope whose source parseFunctionString
\* cannot turn back into a callable
Unparsable(x) ==
    {j \in 1..Len(x.value.objects) :
        /\ IsRecordEntry(x.value.objects[j])
        /\ x.value.objects[j].type = FUNCTION
        /\ parseFunctionString(x.value.objects[j].fun, 0) = <<>>}

\* C11: when the source of a function record cannot be turned back into a
\* callable, the record's table entry is null and deserialize still completes
\* and returns the root value.
C11_NullCallableRecovered ==
    (Over /\ text.type = COMPLEX /\ Unparsable(text) # {}) =>
        /\ pc = "done"
        /\ result = At(output, 0)
        /\ \A j \in Unparsable(text) : output[j] = Null

\* the key that pass 2 uses for property record p of record i (from 0)
RecordKey(i, p) ==
    ToPropertyKey(ResolveKey(text.value.objects[i + 1].props[p].key, dsymbols))

\* the property records of record i whose key shell i already holds as a
\* non-configurable own property
Conflicts(i) ==
    {p \in 1..Len(text.value.objects[i + 1].props) :
        /\ HasOwn(heap[output[i + 1].o], RecordKey(i, p))
        /\ ~OwnProp(heap[output[i + 1].o], RecordKey(i, p)).configurable}

\* the object list with the conflicting property records of record i left out
WithoutConflicts(i) ==
    LET props == text.value.objects[i + 1].props
        keep == {p \in 1..Len(props) : p \notin Conflicts(i)}
        nth(n) == CHOOSE p \in keep : Cardinality({q \in keep : q < p}) = n - 1
    IN  [text.value.objects EXCEPT
            ![i + 1].props = [n \in 1..Cardinality(keep) |-> props[nth(n)]]]

\* C12: when the shell already has a non-configurable own property at the
\* key of a property record, pass 2 skips that one definition and nothing
\* else: the pass does what it would do without that record (no error of its
\* own), the existing property stays, the other properties of the record are
\* defined and the delegation link is attached.
C12_NonConfigurableSkipped ==
    [][(/\ pc = "pass2" /\ pos < Len(text.value.objects)
        /\ IsRecordEntry(text.value.objects[pos + 1])
        /\ IsRef(output[pos + 1])
        /\ Conflicts(pos) # {}) =>
        LET shell == output[pos + 1].o
            rec == text.value.objects[pos + 1]
            rest == PopulateObject(heap, pos, WithoutConflicts(pos), dsymbols, output)
        IN  /\ (pc' = "threw") = rest.threw
            /\ pc' # "threw" =>
                  /\ heap' = rest.heap
                  /\ pos' = pos + 1
                  /\ \A p \in Conflicts(pos) :
                        RecordKey(pos, p) # Str("length") =>
                            OwnProp(heap'[shell], RecordKey(pos, p))
                                = OwnProp(heap[shell], RecordKey(pos, p))
                  /\ \A p \in 1..Len(rec.props) : HasOwn(heap'[shell], RecordKey(pos, p))
                  /\ heap'[shell].proto = ResolveProto(rec.proto, output)]_vars

\* pass 2 has gone past a function record whose prototype record it skipped
\* and whose later property it defined
C12_Witness ==
    /\ pc = "pass2"
    /\ \E i \in 1..pos :
         /\ IsRecordEntry(text.value.objects[i])
         /\ IsCallable(heap, output[i])
         /\ HasOwn(heap[output[i].o], Str("extra"))
         /\ \E p \in 1..Len(text.value.objects[i].props) :
               /\ text.value.objects[i].props[p].key.value = Raw("prototype")
               /\ OwnProp(heap[output[i].o], Str("prototype")).value
                     # At(output, text.value.objects[i].props[p].descriptor.value.idx)

\* C13: serializeComplex raises no failure: no pass of the worklist loop
\* throws, also for an object that has no delegation parent.
C13_WalkerNeverThrows ==
    [][pc = "serializing" => pc' # "threw"]_vars

\* a key that is an unnamed symbol outside the symbol registry: Symbol()
IsUnnamed(k) == k.t = "symbol" /\ SymbolKeyFor(k) = Undef /\ k.y.desc = Undef

\* the records emitted so far, as positions of the identity table
Emitted == {i \in 1..Len(parsed) : IsRecordEntry(parsed[i])}

\* the own properties of the object of record i
Original(i) == heap[objects[i].o].props

\* C14 as the spec states it: a property keyed by an unnamed symbol that is
\* not in the symbol registry is dropped; the record has no property record
\* for it, the symbol table no entry, and the other properties are emitted.
C14_UnnamedSymbolDropped ==
    /\ \A i \in Emitted :
          Len(parsed[i].props)
              = Cardinality({p \in 1..Len(Original(i)) : ~IsUnnamed(Original(i)[p].key)})
    /\ \A n \in 1..Len(symbols) : ~IsUnnamed(Sym(symbols[n]))

\* C14 as the code has it: a property keyed by an unnamed symbol that is not
\* in the symbol registry is kept; its property record has key type
\* CUSTOM_SYMBOL and the index of the symbol in the symbol table, the table
\* holds the symbol once, with description null, and every own property of
\* the object has its record.
C14_UnnamedSymbolKept ==
    /\ \A i \in Emitted :
          /\ Len(parsed[i].props) = Len(Original(i))
          /\ \A p \in 1..Len(Original(i)) :
                IsUnnamed(Original(i)[p].key) =>
                    /\ parsed[i].props[p].key.type = CUSTOM_SYMBOL
                    /\ Count(symbols, Original(i)[p].key.y) = 1
                    /\ parsed[i].props[p].key.value
                          = Idx(FindIndex(symbols, Original(i)[p].key.y))
    /\ (pc = "serialized" /\ text.type = COMPLEX) =>
          /\ Len(text.value.symbols) = Len(symbols)
          /\ \A n \in 1..Len(symbols) :
                IsUnnamed(Sym(symbols[n])) => text.value.symbols[n] = Null

\* serialize has returned the envelope of { [sym]: { [sym]: 5 }, [tag]: 7 }
C14_Witness ==
    /\ pc = "serialized"
    /\ root = Ref(SYMTWO)
    /\ Len(text.value.objects) = 2
    /\ text.value.symbols = <<Null, Str("tag")>>

\* a key that is a custom symbol: a symbol outside the symbol registry
IsCustom(k) == k.t = "symbol" /\ SymbolKeyFor(k) = Undef

\* the custom symbols that key a property of an object of the identity table
CustomKeys ==
    UNION {{Original(i)[p].key.y : p \in {q \in 1..Len(Original(i)) : IsCustom(Original(i)[q].key)}} :
            i \in {j \in 1..Len(objects) : IsRef(objects[j]) /\ ~IsNative(objects[j])}}

\* what a value of the original graph is after the round trip
Decoded(v) ==
    IF IsRef(v) /\ ~IsNative(v) THEN At(output, FindIndex(objects, v)) ELSE v

\* C15: properties keyed by a custom symbol survive the round trip, and
\* one custom symbol is one symbol-table entry and one fresh symbol after
\* deserialize, on whichever objects of the graph it is a key.
C15_CustomSymbolsSurvive ==
    (pc = "done" /\ text.type = COMPLEX) =>
        /\ Len(text.value.symbols) = Cardinality(CustomKeys)
        /\ \A y \in CustomKeys : Count(symbols, y) = 1
        /\ \A n, m \in 1..Len(dsymbols) : n # m => dsymbols[n] # dsymbols[m]
        /\ \A n \in 1..Len(dsymbols) :
              /\ dsymbols[n] \notin CustomKeys
              /\ Description(dsymbols[n]) = Description(symbols[n])
        /\ \A i \in 1..Len(objects) :
              (IsRef(objects[i]) /\ ~IsNative(objects[i])) =>
                \A p \in 1..Len(Original(i)) :
                    IsCustom(Original(i)[p].key) =>
                        /\ IsRef(output[i])
                        /\ HasOwn(heap[output[i].o], DecodedKey(Original(i)[p].key))
                        /\ OwnProp(heap[output[i].o], DecodedKey(Original(i)[p].key)).value
                              = Decoded(Original(i)[p].value)

\* y = deserialize(serialize({ [sym]: { [sym]: 5 } })) has one own symbol s
\* and y[s][s] is 5
C15_Witness ==
    /\ pc = "done"
    /\ root = Ref(SYMOBJ)
    /\ IsRef(result)
    /\ Len(heap[result.o].props) = 1
    /\ LET s == heap[result.o].props[1].key
       IN  /\ s.t = "symbol"
           /\ s # Sym(Sym1)
           /\ GetProp(heap, GetProp(heap, result, s), s) = Num(5)

\* the own property keys of an object, in own-key order
OwnKeys(o) == [p \in 1..Len(o.props) |-> o.props[p].key]

\* C16: for every object of the graph, the own property keys of the decoded
\* object are, in own-key order, the own property keys of the original
\* object: none added, none omitted.
C16_KeyOrderPreserved ==
    (pc = "done" /\ text.type = COMPLEX) =>
        \A i \in 1..Len(objects) :
            (IsRef(objects[i]) /\ ~IsNative(objects[i])) =>
                /\ IsRef(output[i])
                /\ OwnKeys(heap[output[i].o])
                      = [p \in 1..Len(Original(i)) |-> DecodedKey(Original(i)[p].key)]

\* the names of a parameter list: its tokens without white space, split at
\* the commas
RECURSIVE SplitNames(_)
SplitNames(ts) ==
    IF ts = <<>> THEN <<>>
    ELSE IF FirstPos(ts, ",") = 0 THEN <<ts>>
    ELSE <<SubSeq(ts, 1, FirstPos(ts, ",") - 1)>>
            \o SplitNames(SubSeq(ts, FirstPos(ts, ",") + 1, Len(ts)))

\* the parameter names of a function, as its source declares them: between
\* the first parentheses, or before the arrow when there are none
ParamNames(str) ==
    LET arrow == FirstPos(str, "=>")
        open == FirstPos(str, "(")
        list == IF open > 0 /\ (arrow = 0 \/ open < arrow) THEN MatchParamstr(str).text
                ELSE SubSeq(str, 1, arrow - 1)
    IN  SplitNames(SelectTokens(list, {" ", "\n"}))

\* the source of an ordinary, anonymous or arrow function with block body
IsFunctionSource(str) ==
    /\ ~IsClassSource(str)
    /\ MatchBody(str).found
    /\ \A i \in 1..Len(str) : str[i] # "[native code]"
    /\ Head(str) = "function" \/ FirstPos(str, "=>") > 0

\* C17: for a function f with block body, g = deserialize(serialize(f)) is a
\* function with the parameter names of f, in the same order, and the body
\* of f, so that g returns what f returns.
C17_PureFunctionBehaviour ==
    (Over /\ IsRef(root) /\ ~IsNative(root) /\ IsCallable(heap, root)
          /\ IsFunctionSource(heap[root.o].src)) =>
        /\ pc = "done"
        /\ IsCallable(heap, result)
        /\ ParamNames(heap[result.o].src) = ParamNames(heap[root.o].src)
        /\ BodyOf(heap, result) = BodyOf(heap, root)

\* C18: serialize is a function of its argument and the registry: two calls
\* on the same unchanged graph return the same text, whatever calls ran in
\* between; the tables of one call are not seen by another.
C18_SerializeDeterministic ==
    \A i, j \in 1..Len(returned) :
        returned[i].arg = returned[j].arg => returned[i].text = returned[j].text

\* a graph with symbol keys was serialized before and after another one
C18_Witness ==
    /\ Len(returned) = 3
    /\ returned[1].arg = returned[3].arg
    /\ returned[2].arg # returned[1].arg
    /\ returned[1].text.type = COMPLEX
    /\ returned[2].text.type = COMPLEX
    /\ Len(returned[1].text.value.symbols) > 0
    /\ Len(returned[2].text.value.symbols) > 0

\* the objects of a registry
Registered(reg) == {reg[i] : i \in 1..Len(reg)}

\* what the discovery relation finds from object o: the objects and
\* functions that are values of its own data properties, and its delegation
\* parent
Discovered(h, o) ==
    {h[o].props[p].value.o :
        p \in {q \in 1..Len(h[o].props) : ~h[o].props[q].acc /\ IsRef(h[o].props[q].value)}}
        \cup (IF IsRef(h[o].proto) THEN {h[o].proto.o} ELSE {})

\* C19 as the spec states it: when the registry is built, and after every
\* return of addNatives, the registry is closed under the discovery
\* relation, for every registered object.
C19_RegistryClosed ==
    /\ \A o \in Registered(natives) : Discovered(heap, o) \subseteq Registered(natives)
    /\ [][natives' # natives =>
            \A o \in Registered(natives') :
                Discovered(heap', o) \subseteq Registered(natives')]_vars

\* C19 as the code has it: when the registry is built it is closed, and
\* after every return of addNatives the discovery relation leads from every
\* object that this call registered to registered objects only; the objects
\* registered before the call are not looked at again.
C19_NewlyRegisteredClosed ==
    /\ \A o \in Registered(natives) : Discovered(heap, o) \subseteq Registered(natives)
    /\ [][natives' # natives =>
            \A o \in Registered(natives') \ Registered(natives) :
                Discovered(heap', o) \subseteq Registered(natives')]_vars

\* addNatives(b) has registered the instance, its class and the prototype
\* object between them, after globalThis was given a property
C19_Witness ==
    /\ {INST, CPROTO, CLS} \subseteq Registered(natives)
    /\ HasOwn(heap[GLOBAL], Str("late"))
    /\ LEAF \notin Registered(natives)

\* the tag that the classification rule gives a value, for a registry reg
Classify(v, reg) ==
    CASE v.t \in {"null", "string", "number", "boolean"} -> JSONREADY
      [] v.t = "bigint" -> BIGINT
      [] v.t = "symbol" -> SYMBOL
      [] v.t = "undefined" -> UNDEFINED
      [] OTHER -> IF v.o \in Registered(reg) THEN NATIVE ELSE COMPLEX

\* C20: getValueType gives null, strings, numbers and booleans JSONREADY, a
\* bigint BIGINT, a symbol SYMBOL, undefined UNDEFINED, and any other value
\* NATIVE exactly when it is in the registry and COMPLEX otherwise; it
\* changes nothing.  Seen where serialize classifies its argument and where
\* serializeComplex classifies the value of a property.
C20_GetValueType ==
    /\ \A i \in Emitted : \A p \in 1..Len(parsed[i].props) :
          parsed[i].props[p].type = Classify(Original(i)[p].value, natives)
    /\ [][pc = "start" /\ pc' # "start" =>
            /\ pc' = "serializing" => Classify(root, natives) = COMPLEX
            /\ pc' = "serialized" => text'.type = Classify(root, natives)
            /\ pc' \in {"serializing", "serialized"}
            /\ heap' = heap /\ natives' = natives /\ root' = root]_vars

\* an object with a property of every primitive kind and one that holds a
\* native has been serialized, next to a registry that the caller extended
C20_Witness ==
    /\ pc = "serialized"
    /\ root = Ref(MIXED)
    /\ INST \in Registered(natives)
    /\ {parsed[1].props[p].type : p \in 1..Len(parsed[1].props)}
          = {JSONREADY, BIGINT, SYMBOL, UNDEFINED, NATIVE}

\* the indices that pass 2 resolves in the output table for a record: the
\* delegation parent when it is not native, the accessor functions, and the
\* value of a COMPLEX-typed data property
ResolvedIndices(rec) ==
    (IF rec.proto.native THEN {} ELSE {rec.proto.index})
        \cup {rec.props[p].descriptor.get : p \in 1..Len(rec.props)}
        \cup {rec.props[p].descriptor.set : p \in 1..Len(rec.props)}
        \cup {rec.props[p].descriptor.value.idx :
                p \in {q \in 1..Len(rec.props) :
                        /\ rec.props[q].type = COMPLEX
                        /\ rec.props[q].descriptor.get = -1
                        /\ rec.props[q].descriptor.set = -1}}

\* C21: parseComplex works in two passes.  A pass of "construct objects"
\* allocates the shell of its entry and touches no object that exists; when
\* "populate objects" runs, the output table has an entry for every entry of
\* the object list, so every index it resolves, also one that points
\* forward, names an existing table entry; and pass 1 never follows pass 2.
C21_TwoPasses ==
    /\ pc = "pass2" =>
          /\ Len(output) = Len(text.value.objects)
          /\ \A i \in 1..Len(text.value.objects) :
                IsRecordEntry(text.value.objects[i]) =>
                    \A n \in ResolvedIndices(text.value.objects[i]) \ {-1} :
                        n \in 0..(Len(output) - 1)
    /\ [][/\ pc = "pass1" =>
               /\ Len(output) = pos
               /\ pc' # "threw" =>
                     /\ heap' = heap \o ConstructShell(text.value.objects[pos + 1],
                                                       Len(heap) + 1).new
                     /\ Len(output') = pos + 1
                     /\ pc' = "pass2" <=> Len(output') = Len(text.value.objects)
          /\ pc = "pass2" => pc' # "pass1" /\ output' = output]_vars

\* pass 2 has given the first shell a property whose value is a shell of a
\* later table entry
C21_Witness ==
    /\ pc = "pass2"
    /\ pos = 1
    /\ IsRecordEntry(text.value.objects[1])
    /\ IsRef(output[1])
    /\ \E p \in 1..Len(text.value.objects[1].props) :
          LET prop == text.value.objects[1].props[p]
          IN  /\ prop.type = COMPLEX
              /\ prop.descriptor.get = -1 /\ prop.descriptor.set = -1
              /\ prop.descriptor.value.idx > 0
              /\ HasOwn(heap[output[1].o], RecordKey(0, p))
              /\ OwnProp(heap[output[1].o], RecordKey(0, p)).value
                    = output[prop.descriptor.value.idx + 1]
              /\ output[prop.descriptor.value.idx + 1].o > Len(FixedHeap)

\* what the walker looks at in object v: delegation parent, accessor
\* functions and property values
Neighbours(v) ==
    {heap[v.o].proto}
        \cup {heap[v.o].props[p].value : p \in 1..Len(heap[v.o].props)}
        \cup {heap[v.o].props[p].get : p \in 1..Len(heap[v.o].props)}
        \cup {heap[v.o].props[p].set : p \in 1..Len(heap[v.o].props)}

\* C22: an object gets its index in the identity table when it is first
\* discovered, before its record is emitted: the table only grows at its
\* end, by objects it has not got, found in the object being encoded; an
\* index once given stays, and the indices written into the records are the
\* positions of the objects in the table, in first-seen order.
C22_IndexAtDiscovery ==
    /\ Len(parsed) <= Len(objects)
    /\ pc = "serializing" => Len(parsed) = serialized
    /\ \A i, j \in 1..Len(objects) : objects[i] = objects[j] => i = j
    /\ \A i \in Emitted :
          /\ ~parsed[i].proto.native =>
                parsed[i].proto.index = FindIndex(objects, heap[objects[i].o].proto)
          /\ \A p \in 1..Len(parsed[i].props) :
                /\ parsed[i].props[p].type = COMPLEX =>
                      parsed[i].props[p].descriptor.value
                          = Idx(FindIndex(objects, Original(i)[p].value))
                /\ parsed[i].props[p].descriptor.get # -1 =>
                      parsed[i].props[p].descriptor.get
                          = FindIndex(objects, Original(i)[p].get)
                /\ parsed[i].props[p].descriptor.set # -1 =>
                      parsed[i].props[p].descriptor.set
                          = FindIndex(objects, Original(i)[p].set)
    /\ [][pc = "serializing" =>
            /\ Len(objects') >= Len(objects)
            /\ SubSeq(objects', 1, Len(objects)) = objects
            /\ \A n \in (Len(objects) + 1)..Len(objects') :
                  /\ objects'[n] \in Neighbours(objects[serialized + 1])
                  /\ n > Len(parsed')]_vars

\* the third object of a ring was discovered while the second was encoded,
\* was visited at its index, and its record points back at index 0
C22_Witness ==
    /\ pc = "serializing"
    /\ serialized = 3
    /\ Len(objects) = 3
    /\ IsRecordEntry(parsed[3])
    /\ parsed[2].props[1].descriptor.value = Idx(2)
    /\ parsed[3].props[1].descriptor.value = Idx(0)

\* does entry e of the object list describe the object v of the identity
\* table: the registry index of a native object, or else a record of the
\* kind, the source and the own properties of v, key by key
Describes(e, v) ==
    IF IsNative(v)
    THEN e = [n |-> findNativeIndex(v)]
    ELSE /\ IsRecordEntry(e)
         /\ e.type = ObjectTypeOf(v)
         /\ e.fun = heap[v.o].src
         /\ Len(e.props) = Len(heap[v.o].props)
         /\ \A p \in 1..Len(e.props) :
               e.props[p].key = SerializeKey(heap[v.o].props[p].key, symbols).key

C24_WorklistTerminates ==
    /\ (pc = "serializing") ~> (pc \in {"serialized", "threw"})
    /\ [](pc = "serializing" =>
            /\ serialized <= Len(objects)
            /\ \A i, j \in 1..Len(objects) : objects[i] = objects[j] => i = j
            /\ \A i \in 1..Len(objects) :
                  objects[i] = Null \/ objects[i].o \in ReachFrom(heap, {root.o}))
    /\ [][pc = "serializing" =>
            /\ pc' = "serializing" => serialized' = serialized + 1
            /\ \A n \in (Len(objects) + 1)..Len(objects') :
                  \A i \in 1..Len(objects) : objects[i] # objects'[n]
            /\ pc' = "serialized" =>
                  /\ serialized = Len(objects)
                  /\ Len(parsed) = Len(objects)
                  /\ objects' = objects]_vars

\* the walker has returned from a ring of three objects after three passes
C24_Witness ==
    /\ pc = "serialized"
    /\ root = Ref(RingAt(1))
    /\ serialized = 3
    /\ Len(objects) = 3
    /\ CyclePaths(heap, root) # {}

\* the function records of an envelope whose source is that of an ordinary
\* function: not a class, with a parameter list in parentheses and a body
\* in braces
OrdinaryFunctions(x) ==
    {j \in 1..Len(x.value.objects) :
        /\ IsRecordEntry(x.value.objects[j])
        /\ x.value.objects[j].type = FUNCTION
        /\ IsFunctionSource(x.value.objects[j].fun)
        /\ MatchParamstr(x.value.objects[j].fun).found}

\* C25: the function that parseFunctionString builds from the source of an
\* ordinary function has as parameters the names written between the first
\* parentheses of the source, one parameter per name and in source order,
\* whatever the length of a name, and as body the text between the first
\* opening and the last closing brace.
C25_ParameterList ==
    (pc \in {"pass2", "done"} /\ text.type = COMPLEX) =>
        \A j \in OrdinaryFunctions(text) :
            LET fun == text.value.objects[j].fun
            IN  /\ IsCallable(heap, output[j])
                /\ ParamNames(heap[output[j].o].src)
                      = SplitNames(SelectTokens(MatchParamstr(fun).text, {" ", "\n"}))
                /\ BodyOf(heap, output[j]) = SelectTokens(MatchBody(fun).text, {"\n"})

\* C26: the record of an object names its delegation parent by the registry
\* index, with native = true, exactly when the parent is in the registry,
\* and otherwise by the index that the parent has in the identity table;
\* after deserialize the parent of the shell of every record is the registry
\* object at proto.index when proto.native is true and the table entry at
\* proto.index otherwise, which is the decoded parent of the original.
C26_DelegationLinks ==
    /\ \A i \in Emitted :
          LET parent == heap[objects[i].o].proto
          IN  /\ parsed[i].proto.native = IsNative(parent)
              /\ IsNative(parent) => parsed[i].proto.index = findNativeIndex(parent)
              /\ ~IsNative(parent) =>
                    /\ Count(objects, parent) = 1
                    /\ parsed[i].proto.index = FindIndex(objects, parent)
    /\ (pc = "done" /\ text.type = COMPLEX) =>
          \A i \in 1..Len(text.value.objects) :
             IsRecordEntry(text.value.objects[i]) =>
                LET proto == text.value.objects[i].proto
                IN  /\ IsRef(output[i])
                    /\ proto.native =>
                          heap[output[i].o].proto = Ref(natives[proto.index + 1])
                    /\ ~proto.native =>
                          heap[output[i].o].proto = output[proto.index + 1]
                    /\ heap[output[i].o].proto = Decoded(heap[objects[i].o].proto)

\* b = new a() has made the round trip: the parent of the decoded b is the
\* shell of a.prototype, whose parent is the registry's Object.prototype
C26_Witness ==
    /\ pc = "done"
    /\ root = Ref(INST)
    /\ ~text.value.objects[1].proto.native
    /\ heap[result.o].proto = output[text.value.objects[1].proto.index + 1]
    /\ heap[result.o].proto \notin {Ref(CPROTO), Ref(OBJPROTO)}
    /\ text.value.objects[text.value.objects[1].proto.index + 1].proto.native
    /\ heap[heap[result.o].proto.o].proto = Ref(OBJPROTO)

\* the flags of the data properties that the decoder has defined on the
\* plain-object shells are those of the original properties
FlagsKept ==
    (pc = "done" /\ text.type = COMPLEX) =>
        \A i \in 1..Len(objects) :
            (IsRecordEntry(text.value.objects[i]) /\ text.value.objects[i].type = NORMAL) =>
                \A p \in 1..Len(Original(i)) :
                    ~Original(i)[p].acc =>
                        LET key == DecodedKey(Original(i)[p].key)
                            made == OwnProp(heap[output[i].o], key)
                        IN  /\ HasOwn(heap[output[i].o], key)
                            /\ ~made.acc
                            /\ made.configurable = Original(i)[p].configurable
                            /\ made.enumerable = Original(i)[p].enumerable
                            /\ made.writable = Original(i)[p].writable

\* a property record is either that of a data property, without accessor
\* index and with a value, or that of an accessor property, with the value
\* -1 and an accessor index
RecordShape(d) ==
    \/ d.get = -1 /\ d.set = -1 /\ d.value \notin {Idx(-1), NoText}
    \/ d.value = Idx(-1) /\ (d.get # -1 \/ d.set # -1)

\* C27: the data properties that the decoder defines on a fresh plain
\* object have the configurable, enumerable and writable flags of the
\* original properties, and every property record that serialize emits
\* either has get = -1 and set = -1 and carries a value, as text or as
\* object index, or has the value -1 and an accessor index that is not -1.
C27_DescriptorRecords ==
    /\ FlagsKept
    /\ \A i \in Emitted : \A p \in 1..Len(parsed[i].props) :
          RecordShape(parsed[i].props[p].descriptor)

\* C28: a call of addNatives only appends to the registry: the registry
\* before the call is the beginning of the registry after it, so that every
\* object registered before keeps its index and none is removed, and the
\* registry never holds an object at two indices.
C28_RegistryAppendOnly ==
    /\ \A i, j \in 1..Len(natives) : natives[i] = natives[j] => i = j
    /\ [][/\ Len(natives') >= Len(natives)
          /\ SubSeq(natives', 1, Len(natives)) = natives
          /\ \A i, j \in 1..Len(natives') : natives'[i] = natives'[j] => i = j]_vars

\* after addNatives(shared) and addNatives(leaf, pair): leaf, registered by
\* the first call, was passed again and has kept its index
C28_Witness ==
    natives = addNatives(FixedHeap, <<>>, <<GLOBAL>>)
                \o <<SHARED, LEAF, PAIR, FUN, FUNPROTOTYPE>>

\* the custom-symbol indices that the property keys of a record hold
SymbolIndices(rec) ==
    {rec.props[p].key.value.idx :
        p \in {q \in 1..Len(rec.props) : rec.props[q].key.type = CUSTOM_SYMBOL}}

\* the registry indices that a record holds: a native delegation parent
NativeIndices(rec) == IF rec.proto.native THEN {rec.proto.index} ELSE {}

\* C29: every index in an envelope that serialize has returned can be
\* resolved: the indices of objects (parent that is not native, value of a
\* COMPLEX property, accessor functions) are positions of the object list,
\* the indices of custom symbols are positions of the symbol list, and the
\* native indices (an entry of the object list that is a number, a native
\* parent) are positions of the registry.
C29_IndicesResolvable ==
    (pc \in {"serialized", "pass1", "pass2", "done"} /\ text.type = COMPLEX) =>
        \A i \in 1..Len(text.value.objects) :
            LET e == text.value.objects[i]
            IN  IF IsNativeEntry(e)
                THEN e.n \in 0..(Len(natives) - 1)
                ELSE /\ \A n \in ResolvedIndices(e) \ {-1} :
                            n \in 0..(Len(text.value.objects) - 1)
                     /\ \A n \in SymbolIndices(e) : n \in 0..(Len(text.value.symbols) - 1)
                     /\ \A n \in NativeIndices(e) : n \in 0..(Len(natives) - 1)

\* serialize has returned the envelope of b = new a(): the record of b
\* names its parent by the index 1, the record of a.prototype names the
\* class by the index 2, the last of the list
C29_Witness ==
    /\ pc = "serialized"
    /\ root = Ref(INST)
    /\ text.type = COMPLEX
    /\ Len(text.value.objects) = 3
    /\ ResolvedIndices(text.value.objects[1]) = {1, -1}
    /\ ResolvedIndices(text.value.objects[2]) = {2, -1}
    /\ NativeIndices(text.value.objects[2]) = {FindIndex(natives, OBJPROTO)}

\* deserialize is at work
Decoding == pc \in {"serialized", "pass1", "pass2"}

\* C30: deserialize leaves the registry and the objects in it as they are.
\* The shell that pass 1 makes for a record is a new object; a pass of
\* "populate objects" changes no object but the shell of its record, and
\* none at all for an entry that is a registry index; no step changes the
\* registry, a property of a registered object or its delegation parent.
C30_NativesUntouched ==
    /\ Decoding \/ pc = "done" =>
          \A i \in 1..Len(output) :
             (text.type = COMPLEX /\ IsRecordEntry(text.value.objects[i])
                  /\ IsRef(output[i])) =>
                output[i].o \notin Registered(natives)
    /\ [][Decoding =>
            /\ natives' = natives
            /\ \A o \in Registered(natives) : heap'[o] = heap[o]
            /\ pc = "pass1" =>
                  \A o \in 1..Len(heap) : heap'[o] = heap[o]
            /\ (pc = "pass1" /\ pc' # "threw"
                    /\ IsRecordEntry(text.value.objects[Len(output) + 1])) =>
                  output'[Len(output')] \in {Null, Ref(Len(heap) + 1)}
            /\ pc = "pass2" =>
                  \A o \in 1..Len(heap) :
                     heap'[o] # heap[o] =>
                        /\ IsRecordEntry(text.value.objects[pos + 1])
                        /\ output[pos + 1] = Ref(o)]_vars

\* pass 2 has defined the accessor of the first shell and has gone past
\* the entry of its getter, which is the registry's Object
C30_Witness ==
    /\ pc = "pass2"
    /\ pos = 2
    /\ IsNativeEntry(text.value.objects[2])
    /\ output[2] = Ref(OBJECT)
    /\ heap[OBJECT] = FixedHeap[OBJECT]
    /\ OwnProp(heap[output[1].o], Str("x")).get = Ref(OBJECT)

====
